---- MODULE Spec2Model ----
(***************************************************************************)
(* Model of python/monte_carlo/gbm.py: the geometric-Brownian-motion path  *)
(* simulator simulate_paths, the timing decorator profile and the          *)
(* script-level block of the module.                                       *)
(*                                                                         *)
(* Numbers.  A float64 value is modelled exactly, as one of                *)
(*     c * e^x   (k = "fin", c and x integers; c = 0 is written with x = 0)*)
(*     +inf, -inf (k = "inf", c = 1 or -1)                                 *)
(*     NaN        (k = "nan")                                              *)
(* Products of such values and exponentials of integers stay in this form, *)
(* and since e is transcendental two "fin" values are equal as reals iff   *)
(* their records are equal.  The special values follow IEEE 754 as numpy   *)
(* computes them (0 * inf = NaN, exp(-inf) = 0, ...).  Rounding, overflow  *)
(* and underflow of finite values are not modelled.  NaN is one value,     *)
(* equal to itself: equality below is identity of the stored value.        *)
(*                                                                         *)
(* Random source.  numpy's global generator is modelled by the number of   *)
(* variates it has handed out (rng_draws); the variates themselves are     *)
(* chosen nondeterministically, since the script never seeds it.           *)
(***************************************************************************)
EXTENDS Integers, FiniteSets, Sequences

(* ---------------------------------------------------------------- bounds *)

\* Largest number of cells nr_steps * nr_paths of a simulated matrix.
MaxCells == 6

\* Dimensions tried for nr_steps and nr_paths: negative, zero and positive.
DimValues == (-1)..MaxCells

\* Values tried for drift, vola and price_0 (each stands for that real number).
DriftValues == {0, 1}
VolaValues == {-1, 0, 1}
PriceValues == {0, 2}

\* Uniform samples np.random.rand can return, named by an index:
\*   0 is the sample 0.0 (rand draws from the half-open interval [0, 1)),
\*   1 is the sample 0.5 = Phi(0),
\*   2 is the sample Phi(1) = 0.8413...
Uniforms == {0, 1, 2}

(* ------------------------------------------------------ float64 values *)

Fin(c, x) == [k |-> "fin", c |-> c, x |-> IF c = 0 THEN 0 ELSE x]
Real(n) == Fin(n, 0)
Inf(s) == [k |-> "inf", c |-> s, x |-> 0]
NaN == [k |-> "nan", c |-> 0, x |-> 0]
Sign(n) == IF n > 0 THEN 1 ELSE IF n < 0 THEN -1 ELSE 0

\* a * b
np_multiply(a, b) ==
    IF a.k = "nan" \/ b.k = "nan" THEN NaN
    ELSE IF a.k = "inf" \/ b.k = "inf"
         THEN IF a.c = 0 \/ b.c = 0 THEN NaN ELSE Inf(Sign(a.c) * Sign(b.c))
         ELSE Fin(a.c * b.c, a.x + b.x)

\* a + b, for operands that are plain reals (x = 0) or special values:
\* the only sum the module computes is drift + vola * zs.
np_add(a, b) ==
    IF a.k = "nan" \/ b.k = "nan" THEN NaN
    ELSE IF a.k = "inf" /\ b.k = "inf"
         THEN IF a.c = b.c THEN a ELSE NaN
         ELSE IF a.k = "inf" THEN a
         ELSE IF b.k = "inf" THEN b
         ELSE Fin(a.c + b.c, 0)

\* np.exp(a) for a plain real or a special value
np_exp(a) ==
    IF a.k = "nan" THEN NaN
    ELSE IF a.k = "inf" THEN (IF a.c > 0 THEN Inf(1) ELSE Real(0))
    ELSE Fin(1, a.c)

\* scipy.stats.norm.ppf on a uniform sample: the lower end of the support
\* for the sample 0.0, the quantile otherwise.
norm_ppf(u) == IF u = 0 THEN Inf(-1) ELSE Real(u - 1)

(* ------------------------------------------------------------ matrices *)

\* A matrix of shape (s, n) is a function on rows 0..s-1 of functions on
\* columns 0..n-1, indexed as in the source.
Rows(s) == 0..(s - 1)
Cols(n) == 0..(n - 1)

\* np.random.rand(s, n) raises ValueError on a negative dimension and
\* accepts a zero one (an empty array).
\* (variant: a draw that also rejected zero dimensions)
RandRaisesOnZero(s, n) == s <= 0 \/ n <= 0
RandRaises(s, n) == s < 0 \/ n < 0

\* number of variates np.random.rand(s, n) takes from the generator
\* (variant: a draw of one row only)
DrawCountOneRow(s, n) == n
DrawCount(s, n) == s * n

\* exp(drift + vola * z), elementwise
ReturnFactor(d, v, z) == np_exp(np_add(Real(d), np_multiply(Real(v), z)))

\* np.zeros_like(m)
np_zeros_like(m) == [i \in DOMAIN m |-> [j \in DOMAIN m[i] |-> Real(0)]]

\* price_paths[0] = price_0: the scalar broadcast over the row
\* (variant: price_paths[0][0] = price_0, one cell instead of the row)
BroadcastFirstOnly(p, row) == [j \in DOMAIN row |-> IF j = 0 THEN Real(p) ELSE row[j]]
BroadcastRow(p, row) == [j \in DOMAIN row |-> Real(p)]

\* range(1, nr_steps)
\* (variant: range(1, nr_steps - 1), which stops one row early)
LoopRangeShort(n) == 1..(n - 2)
LoopRange(n) == 1..(n - 1)

\* price_paths[t-1] * daily_returns[t]
\* (variants: the factor of the row above, the factor of the next path)
StepRowPrevFactor(pp, dr, tt) ==
    [j \in DOMAIN pp[tt] |-> np_multiply(pp[tt - 1][j], dr[tt - 1][j])]
StepRowOtherPath(pp, dr, tt) ==
    [j \in DOMAIN pp[tt] |->
        np_multiply(pp[tt - 1][j], dr[tt][(j + 1) % Cardinality(DOMAIN pp[tt])])]
StepRow(pp, dr, tt) ==
    [j \in DOMAIN pp[tt] |-> np_multiply(pp[tt - 1][j], dr[tt][j])]

(* ------------------------------------------------- script-level literals *)

\* nr = 100 repetitions handed to timeit by the decorator
ProfileNr == 100
\* simulate_paths(0.001, 0.005, 100.0, 100, 10_000) in profile_gbm
ProfileSteps == 100
ProfilePaths == 10000

\* names bound in the module's globals when line 38 runs
ModuleGlobals == {"np", "norm", "simulate_paths", "profile", "profile_gbm", "cProfile"}

\* the function the string handed to cProfile.run calls
ProfiledName == "my_func"

\* what pstats sorts by for a sort_stats key
SortKeyMeaning(key) ==
    CASE key = "time" -> "internal time"
      [] key = "calls" -> "call count"
      [] key = "cumulative" -> "cumulative time"
      [] OTHER -> "unknown"

(* ---------------------------------------------------------------- state *)

VARIABLES
    module_name,    \* __name__: "gbm" when imported, "__main__" when run as a script
    pc,             \* position of the one simulate_paths call a caller makes
    drift, vola, price_0, nr_steps, nr_paths,   \* the call's arguments
    rng_draws,      \* variates taken from numpy's global generator so far
    zs, daily_returns, price_paths, t,          \* the call's locals
    assigned,       \* rows of price_paths a statement has stored into
    error,          \* exception the call ended with, "none" otherwise
    ret,            \* the returned matrix
    script_pc,      \* position in the script-level block and the decorator
    func_calls,     \* calls of the decorated function made so far
    timed,          \* repetitions timeit has run
    stdout,         \* lines printed
    files           \* files written, in order: [name, sort]

args == <<drift, vola, price_0, nr_steps, nr_paths>>
locals == <<zs, daily_returns, price_paths, t, assigned, error, ret>>
script == <<script_pc, func_calls, timed, stdout, files>>
vars == <<module_name, pc, args, rng_draws, locals, script>>

Init ==
    /\ module_name \in {"gbm", "__main__"}
    /\ pc = "idle"
    /\ drift = 0 /\ vola = 0 /\ price_0 = 0 /\ nr_steps = 0 /\ nr_paths = 0
    /\ rng_draws = 0
    /\ zs = <<>> /\ daily_returns = <<>> /\ price_paths = <<>>
    /\ t = 0
    /\ assigned = {}
    /\ error = "none"
    /\ ret = <<>>
    /\ script_pc = IF module_name = "__main__" THEN "line35" ELSE "imported"
    /\ func_calls = 0
    /\ timed = 0
    /\ stdout = <<>>
    /\ files = <<>>

(* ------------------------------------------------------- simulate_paths *)

\* The shapes tried: any pair of dimensions whose matrix has at most MaxCells
\* cells (a negative or zero dimension gives none).
Shapes == {sn \in DimValues \X DimValues :
              (sn[1] > 0 /\ sn[2] > 0) => sn[1] * sn[2] <= MaxCells}

\* A caller that imported the module calls simulate_paths(d, v, p, s, n);
\* line 6 runs: zs = norm.ppf(np.random.rand(nr_steps, nr_paths)).
SimulatePathsCall ==
    /\ module_name = "gbm"
    /\ pc = "idle"
    /\ \E d \in DriftValues, v \in VolaValues, p \in PriceValues, sn \in Shapes :
          LET s == sn[1]
              n == sn[2]
          IN  /\ drift' = d /\ vola' = v /\ price_0' = p
              /\ nr_steps' = s /\ nr_paths' = n
              /\ IF RandRaises(s, n)
                 THEN /\ pc' = "raised"
                      /\ error' = "ValueError"
                      /\ UNCHANGED <<rng_draws, zs>>
                 ELSE /\ \E us \in [Rows(s) -> [Cols(n) -> Uniforms]] :
                           zs' = [i \in Rows(s) |->
                                     [j \in Cols(n) |-> norm_ppf(us[i][j])]]
                      /\ rng_draws' = rng_draws + DrawCount(s, n)
                      /\ pc' = "line7"
                      /\ UNCHANGED error
    /\ UNCHANGED <<module_name, daily_returns, price_paths, t, assigned, ret, script>>

\* lines 7-8: daily_returns = np.exp(drift + vola * zs);
\*            price_paths = np.zeros_like(daily_returns)
ComputeReturns ==
    /\ pc = "line7"
    /\ daily_returns' =
          [i \in DOMAIN zs |->
              [j \in DOMAIN zs[i] |-> ReturnFactor(drift, vola, zs[i][j])]]
    /\ price_paths' = np_zeros_like(daily_returns')
    /\ pc' = "line9"
    /\ UNCHANGED <<module_name, args, rng_draws, zs, t, assigned, error, ret, script>>

\* line 9: price_paths[0] = price_0 (IndexError on a matrix without rows)
InitFirstRow ==
    /\ pc = "line9"
    /\ IF 0 \in DOMAIN price_paths
       THEN /\ price_paths' =
                  [price_paths EXCEPT ![0] = BroadcastRow(price_0, price_paths[0])]
            /\ assigned' = assigned \cup {0}
            /\ pc' = "line10"
            /\ UNCHANGED error
       ELSE /\ pc' = "raised"
            /\ error' = "IndexError"
            /\ UNCHANGED <<price_paths, assigned>>
    /\ UNCHANGED <<module_name, args, rng_draws, zs, daily_returns, t, ret, script>>

\* lines 10-11: one iteration of  for t in range(1, nr_steps):
\*                  price_paths[t] = price_paths[t-1]*daily_returns[t]
\* (t = 0 stands for the loop variable not bound yet)
CompoundStep ==
    /\ pc = "line10"
    /\ t + 1 \in LoopRange(nr_steps)
    /\ t' = t + 1
    /\ price_paths' =
          [price_paths EXCEPT ![t'] = StepRow(price_paths, daily_returns, t')]
    /\ assigned' = assigned \cup {t'}
    /\ UNCHANGED <<module_name, pc, args, rng_draws, zs, daily_returns, error, ret, script>>

\* line 12, once the range is exhausted: return price_paths
ReturnPaths ==
    /\ pc = "line10"
    /\ t + 1 \notin LoopRange(nr_steps)
    /\ ret' = price_paths
    /\ pc' = "returned"
    /\ UNCHANGED <<module_name, args, rng_draws, zs, daily_returns, price_paths, t,
                   assigned, error, script>>

(* --------------------------------------- decorator and script-level block *)

\* line 35 calls profile_gbm, which is wrapper; line 21: print("starting")
WrapperStart ==
    /\ script_pc = "line35"
    /\ stdout' = Append(stdout, "starting")
    /\ script_pc' = "line22"
    /\ UNCHANGED <<module_name, pc, args, rng_draws, locals, func_calls, timed, files>>

\* One call func(): simulate_paths(0.001, 0.005, 100.0, 100, 10_000), whose
\* matrix is dropped; what stays of it is the generator's advance.
FuncCallDraws == DrawCount(ProfileSteps, ProfilePaths)

\* line 22: func()
WrapperFunc ==
    /\ script_pc = "line22"
    /\ func_calls' = func_calls + 1
    /\ rng_draws' = rng_draws + FuncCallDraws
    /\ script_pc' = "line23"
    /\ UNCHANGED <<module_name, pc, args, locals, timed, stdout, files>>

\* line 23: timeit.timeit(func, number=nr), one repetition
TimeitCall ==
    /\ script_pc = "line23"
    /\ timed < ProfileNr
    /\ timed' = timed + 1
    /\ func_calls' = func_calls + 1
    /\ rng_draws' = rng_draws + FuncCallDraws
    /\ UNCHANGED <<module_name, pc, args, locals, script_pc, stdout, files>>

\* line 23: print(total / nr), then wrapper returns to line 35
WrapperReport ==
    /\ script_pc = "line23"
    /\ timed = ProfileNr
    /\ stdout' = Append(stdout, "seconds per call")
    /\ script_pc' = "line38"
    /\ UNCHANGED <<module_name, pc, args, rng_draws, locals, func_calls, timed, files>>

\* lines 37-49, one statement group per step:
\*   38      cProfile.run('my_func()', 'output.dat'): the statement is exec'd
\*           in the module's globals; the profiler dumps output.dat in a
\*           finally clause, then an exception of the statement propagates
\*   43-45   output_time.txt  <- stats sorted by "time"
\*   47-49   output_calls.txt <- stats sorted by "calls"
MainBlock ==
    /\ script_pc \in {"line38", "line43", "line47"}
    /\ CASE script_pc = "line38" ->
              /\ files' = Append(files, [name |-> "output.dat", sort |-> "none"])
              /\ script_pc' = IF ProfiledName \in ModuleGlobals
                              THEN "line43" ELSE "NameError"
         [] script_pc = "line43" ->
              /\ files' = Append(files, [name |-> "output_time.txt",
                                         sort |-> SortKeyMeaning("time")])
              /\ script_pc' = "line47"
         [] script_pc = "line47" ->
              /\ files' = Append(files, [name |-> "output_calls.txt",
                                         sort |-> SortKeyMeaning("calls")])
              /\ script_pc' = "end"
    /\ UNCHANGED <<module_name, pc, args, rng_draws, locals, func_calls, timed, stdout>>

(* -------------------------------------------------------- specification *)

Next ==
    \/ SimulatePathsCall
    \/ ComputeReturns
    \/ InitFirstRow
    \/ CompoundStep
    \/ ReturnPaths
    \/ WrapperStart
    \/ WrapperFunc
    \/ TimeitCall
    \/ WrapperReport
    \/ MainBlock

Spec == Init /\ [][Next]_vars

(* ------------------------------------------- the function, as one value *)

\* The loop of lines 10-11 run to exhaustion from loop variable tt.
RECURSIVE Compound(_, _, _, _)
Compound(pp, dr, tt, n) ==
    IF tt + 1 \in LoopRange(n)
    THEN Compound([pp EXCEPT ![tt + 1] = StepRow(pp, dr, tt + 1)], dr, tt + 1, n)
    ELSE pp

\* The matrix simulate_paths(d, v, p, s, n) returns when norm.ppf of the
\* drawn samples is z (a matrix with at least one row).
SimulatedPaths(d, v, p, s, n, z) ==
    LET dr == [i \in DOMAIN z |-> [j \in DOMAIN z[i] |-> ReturnFactor(d, v, z[i][j])]]
        pp == np_zeros_like(dr)
    IN  Compound([pp EXCEPT ![0] = BroadcastRow(p, pp[0])], dr, 0, s)

(* --------------------------------------------------------------- claims *)

Returned == module_name = "gbm" /\ pc = "returned"
Raised == module_name = "gbm" /\ pc = "raised"
ValidShape == nr_steps >= 1 /\ nr_paths >= 1
ZValues == {norm_ppf(u) : u \in Uniforms}

\* The return multiplier of row i and path j, written out from the draws.
Multiplier(i, j) == np_exp(np_add(Real(drift), np_multiply(Real(vola), zs[i][j])))

\* C1: in the returned matrix every entry of a row t >= 1 is the entry above
\* it times the return multiplier exp(drift + vola * z[t][j]) of the same
\* row and the same path.
C1_Recurrence ==
    Returned =>
        \A i \in 1..(nr_steps - 1) : \A j \in Cols(nr_paths) :
            ret[i][j] = np_multiply(ret[i - 1][j], Multiplier(i, j))

\* a returned 3-row, 2-path matrix whose multipliers differ between rows and
\* between paths, so that a wrong row or path would show
C1_Witness ==
    /\ Returned /\ nr_steps = 3 /\ nr_paths = 2 /\ price_0 # 0 /\ vola = 1
    /\ \A i \in Rows(3) : \A j \in Cols(2) : zs[i][j].k = "fin"
    /\ zs[0][0] # zs[1][0] /\ zs[1][0] # zs[2][0] /\ zs[1][0] # zs[1][1]
    /\ ret[2][0] # ret[1][0] /\ ret[1][0] # ret[1][1]

\* C2: a call with positive nr_steps and nr_paths never raises, and the matrix
\* it returns has rows 0..nr_steps-1, each with columns 0..nr_paths-1, and
\* every row has been stored into.
C2_ShapeAndAssigned ==
    (module_name = "gbm" /\ pc # "idle" /\ ValidShape) =>
        /\ pc # "raised"
        /\ pc = "returned" =>
              /\ DOMAIN ret = Rows(nr_steps)
              /\ \A i \in Rows(nr_steps) : DOMAIN ret[i] = Cols(nr_paths)
              /\ assigned = Rows(nr_steps)

C2_Witness == Returned /\ nr_steps = 3 /\ nr_paths = 2 /\ assigned = {0, 1, 2}

\* C3: for nr_steps = 1 the returned matrix is the single row 0, every entry
\* of it price_0, and the loop body never ran (t was never bound, only row 0
\* was stored into).
C3_SingleRow ==
    (Returned /\ nr_steps = 1 /\ nr_paths >= 1) =>
        /\ DOMAIN ret = {0}
        /\ DOMAIN ret[0] = Cols(nr_paths)
        /\ \A j \in Cols(nr_paths) : ret[0][j] = Real(price_0)
        /\ t = 0
        /\ assigned = {0}

\* one row, several paths, and a multiplier that is not 1
C3_Witness ==
    /\ Returned /\ nr_steps = 1 /\ nr_paths = 3 /\ price_0 = 2
    /\ daily_returns[0][0] # Real(1) /\ daily_returns[0][1] # daily_returns[0][0]

\* C4: with vola = 0 and drift = 0 every entry of the returned matrix equals
\* price_0, whatever the draws.
C4_ConstantPaths ==
    (Returned /\ ValidShape /\ vola = 0 /\ drift = 0) =>
        \A i \in Rows(nr_steps) : \A j \in Cols(nr_paths) : ret[i][j] = Real(price_0)

\* How far C4 does hold: on every path that drew no sample 0.0 in the rows
\* 1..i (norm.ppf(0.0) is -inf and 0 * -inf is NaN).
ConstantPathsOnPositiveDraws ==
    (Returned /\ ValidShape /\ vola = 0 /\ drift = 0) =>
        \A i \in Rows(nr_steps) : \A j \in Cols(nr_paths) :
            IF \A r \in 1..i : zs[r][j].k = "fin"
            THEN ret[i][j] = Real(price_0)
            ELSE ret[i][j] = NaN

\* C5: with vola = 0 and drift = d # 0 the entry of row i is price_0 * exp(d)^i
\* in every path, whatever the draws.
C5_GeometricProgression ==
    (Returned /\ ValidShape /\ vola = 0 /\ drift # 0) =>
        \A i \in Rows(nr_steps) : \A j \in Cols(nr_paths) :
            ret[i][j] = Fin(price_0, drift * i)

\* How far C5 does hold: as for C4.
GeometricProgressionOnPositiveDraws ==
    (Returned /\ ValidShape /\ vola = 0 /\ drift # 0) =>
        \A i \in Rows(nr_steps) : \A j \in Cols(nr_paths) :
            IF \A r \in 1..i : zs[r][j].k = "fin"
            THEN ret[i][j] = Fin(price_0, drift * i)
            ELSE ret[i][j] = NaN

\* C6, as claimed: the state that outlives a call is after the call what it
\* was before it; the generator had handed out no variate before the call.
C6_NoSideEffect ==
    (module_name = "gbm" /\ pc \in {"returned", "raised"}) => rng_draws = 0

\* C6, amended: the call's step that draws advances the generator by exactly
\* nr_steps * nr_paths variates (by none when a dimension is negative and the
\* draw raises); every other step of the call leaves the generator and the
\* arguments as they are.
C6_Frame ==
    [][module_name = "gbm" =>
          IF pc = "idle"
          THEN rng_draws' = rng_draws +
                  (IF nr_steps' < 0 \/ nr_paths' < 0 THEN 0 ELSE nr_steps' * nr_paths')
          ELSE rng_draws' = rng_draws /\ args' = args]_vars

C6_Witness == Returned /\ nr_steps = 3 /\ nr_paths = 2 /\ rng_draws = 6

\* C7, as claimed: a call with a zero or negative nr_steps or nr_paths never
\* returns a matrix.
C7_NeverReturns == Returned => ValidShape

\* C7, amended: a negative dimension ends the call with the ValueError of the
\* draw, before any variate is taken; nr_steps = 0 with nr_paths >= 0 passes
\* the draw and ends with the IndexError of the store into row 0;
\* nr_paths = 0 with nr_steps >= 1 raises nothing and returns a matrix of
\* nr_steps empty rows.  No error other than these two library errors occurs.
C7_InvalidShapes ==
    (module_name = "gbm" /\ pc # "idle" /\ ~ValidShape) =>
        /\ (nr_steps < 0 \/ nr_paths < 0) =>
              /\ pc = "raised" /\ error = "ValueError"
              /\ rng_draws = 0 /\ price_paths = <<>>
        /\ (nr_steps = 0 /\ nr_paths >= 0) =>
              /\ pc \in {"line7", "line9", "raised"}
              /\ pc = "raised" => error = "IndexError" /\ DOMAIN zs = {}
        /\ (nr_steps >= 1 /\ nr_paths = 0) =>
              /\ pc # "raised" /\ error = "none"
              /\ pc = "returned" =>
                    /\ DOMAIN ret = Rows(nr_steps)
                    /\ \A i \in Rows(nr_steps) : DOMAIN ret[i] = {}

C7_Witness == Returned /\ nr_steps = 2 /\ nr_paths = 0 /\ DOMAIN ret = {0, 1}

\* C8: run as a script, the module reaches the end of the script-level block
\* with output_time.txt and then output_calls.txt written: whenever the run
\* has ended, it ended at the end of the block and both reports exist.
ScriptEnded == script_pc \in {"end", "NameError"}
C8_ScriptCompletes ==
    (module_name = "__main__" /\ ScriptEnded) =>
        /\ script_pc = "end"
        /\ \E i, j \in DOMAIN files :
              /\ i < j
              /\ files[i].name = "output_time.txt"
              /\ files[j].name = "output_calls.txt"

\* C9: the run leaves output_time.txt sorted by cumulative time and
\* output_calls.txt sorted by call count.
C9_ReportOrder ==
    (module_name = "__main__" /\ ScriptEnded) =>
        /\ \E i \in DOMAIN files :
              files[i] = [name |-> "output_time.txt", sort |-> "cumulative time"]
        /\ \E i \in DOMAIN files :
              files[i] = [name |-> "output_calls.txt", sort |-> "call count"]

\* zs with the one cell (r, c) replaced by z
WithCell(r, c, z) == [zs EXCEPT ![r][c] = z]

\* C10: the returned entry of row i and path j is a function of the
\* arguments and the draws of rows 1..i of path j alone: replacing any one
\* other draw (of row 0, of a later row, of another path) by any other value
\* and running the function again gives the same entry.  Every matrix of
\* draws is reached, so two matrices that agree on rows 1..i of path j are
\* linked by such replacements and give the same entry.
C10_OwnPathOnly ==
    (Returned /\ ValidShape) =>
        \A r \in Rows(nr_steps) : \A c \in Cols(nr_paths) :
            \A z \in ZValues \ {zs[r][c]} :
                LET other == SimulatedPaths(drift, vola, price_0, nr_steps, nr_paths,
                                            WithCell(r, c, z))
                IN  \A i \in Rows(nr_steps) : \A j \in Cols(nr_paths) :
                        (c # j \/ r = 0 \/ r > i) => other[i][j] = ret[i][j]

\* a returned entry that does move with its own draws: 3 rows, 2 paths, and
\* the entry of row 1 differs from the one of row 2 and from its neighbour's
C10_Witness ==
    /\ Returned /\ nr_steps = 3 /\ nr_paths = 2 /\ price_0 = 2 /\ vola = -1
    /\ zs[0][0] # zs[1][0] /\ zs[2][0] # zs[1][0] /\ zs[1][1] # zs[1][0]
    /\ ret[1][0].k = "fin" /\ ret[1][1].k = "inf"

\* The stepwise call and the function as one value agree.
StepsAgreeWithFunction ==
    (Returned /\ nr_steps >= 1) =>
        ret = SimulatedPaths(drift, vola, price_0, nr_steps, nr_paths, zs)

====
